---- MODULE Spec2Model ----
(***************************************************************************)
(* Model of the two command-line utilities of openconfig/models-ci:        *)
(*   linter/lint_to_md.py   (fn_to_model_dir, process_message,             *)
(*                           process_output, __main__)                     *)
(*   bin/find_buildfiles.py (main)                                         *)
(*                                                                         *)
(* A Python string is a sequence of tokens.  The delimiters the code       *)
(* splits or tests on ("/", ":", "(", " ") are tokens of their own; a run  *)
(* of other characters ("models", "12", "bad") is one token.  split, join, *)
(* replace, lstrip and "in" are computed on these sequences.               *)
(***************************************************************************)
EXTENDS Integers, Sequences, FiniteSets, TLC

VARIABLES
    \* call of fn_to_model_dir
    dir_fn, dir_ret, dir_pc,
    \* call of process_message
    msg, suppress_warnings, html, msg_ret, msg_pc,
    \* run of lint_to_md.py
    lint_json, mode, file_idx, output, overall_failed, fh, lint_exit, lint_pc,
    \* run of find_buildfiles.py
    yaml_spec, spec_idx, stdout, build_exit, build_pc

dir_vars == <<dir_fn, dir_ret, dir_pc>>
msg_vars == <<msg, suppress_warnings, html, msg_ret, msg_pc>>
lint_vars == <<lint_json, mode, file_idx, output, overall_failed, fh, lint_exit, lint_pc>>
build_vars == <<yaml_spec, spec_idx, stdout, build_exit, build_pc>>
vars == <<dir_vars, msg_vars, lint_vars, build_vars>>

(***************************************************************************)
(* Python string and list primitives                                       *)
(***************************************************************************)

\* Python's None: no string of the model contains the token "None".
None == <<"None">>

\* the grave accent (U+0060) that Markdown quotes code with
Backtick == "<backtick>"

\* the string of one token
Str(t) == <<t>>

\* s.split(d): always at least one part, empty parts are kept
Split(s, d) ==
    LET F[i \in 0..Len(s)] ==
            IF i = 0 THEN << <<>> >>
            ELSE LET done == F[i-1]
                 IN  IF s[i] = d THEN Append(done, <<>>)
                     ELSE [done EXCEPT ![Len(done)] = Append(@, s[i])]
    IN  F[Len(s)]

\* d.join(parts)
RECURSIVE Join(_, _)
Join(parts, d) ==
    IF Len(parts) = 0 THEN <<>>
    ELSE IF Len(parts) = 1 THEN parts[1]
    ELSE parts[1] \o d \o Join(Tail(parts), d)

\* s.replace(" ", "")
RemoveSpaces(s) == SelectSeq(s, LAMBDA c : c # " ")

\* s.lstrip(" ")
RECURSIVE LStrip(_)
LStrip(s) == IF Len(s) > 0 /\ Head(s) = " " THEN LStrip(Tail(s)) ELSE s

\* c in s
Contains(s, c) == \E i \in 1..Len(s) : s[i] = c

\* x in lst
InList(x, lst) == \E i \in 1..Len(lst) : lst[i] = x

\* all sequences over S of length 0..n
SeqsUpTo(S, n) == UNION { [1..k -> S] : k \in 0..n }

\* a sequence without repeated elements
Distinct(s) == \A i, j \in 1..Len(s) : i # j => s[i] # s[j]

(***************************************************************************)
(* lint_to_md.py                                                           *)
(***************************************************************************)

\* "did not have a valid build file"
NoValidBuildFile ==
    <<"did", " ", "not", " ", "have", " ", "a", " ", "valid", " ", "build",
      " ", "file">>
BUILD_ERRORS == << NoValidBuildFile >>

\* a variant that drops the last segment (the file name)
fn_to_model_dir_nofile(fn) ==
    LET parts == Split(fn, "/")
        F[i \in 0..Len(parts)] ==
            IF i = 0
            THEN [in_models |-> FALSE, in_yang |-> FALSE, model_parts |-> <<>>]
            ELSE LET s == F[i-1]
                     p == parts[i]
                 IN  IF p = Str("models") THEN [s EXCEPT !.in_models = TRUE]
                     ELSE IF p = Str("yang") THEN [s EXCEPT !.in_yang = TRUE]
                     ELSE IF s.in_yang /\ s.in_models /\ i < Len(parts)
                          THEN [s EXCEPT !.model_parts = Append(@, p)]
                     ELSE s
    IN  F[Len(parts)].model_parts

\* fn_to_model_dir: F[i] is the loop state after i segments
fn_to_model_dir(fn) ==
    LET parts == Split(fn, "/")
        F[i \in 0..Len(parts)] ==
            IF i = 0
            THEN [in_models |-> FALSE, in_yang |-> FALSE, model_parts |-> <<>>]
            ELSE LET s == F[i-1]
                     p == parts[i]
                 IN  IF p = Str("models") THEN [s EXCEPT !.in_models = TRUE]
                     ELSE IF p = Str("yang") THEN [s EXCEPT !.in_yang = TRUE]
                     ELSE IF s.in_yang /\ s.in_models
                          THEN [s EXCEPT !.model_parts = Append(@, p)]
                     ELSE s
    IN  F[Len(parts)].model_parts

\* the fields of process_message's parse (lines 58-80)
MessageParts(m) == Split(m, ":")
HasSubpath(m) == Contains(MessageParts(m)[2], "(")
LineNum(m) ==
    IF HasSubpath(m)
    THEN RemoveSpaces(Split(MessageParts(m)[2], "(")[1])
    ELSE MessageParts(m)[2]
RemainingStart(m) == IF HasSubpath(m) THEN 4 ELSE 3
RemainingMessage(m) ==
    LET message_parts == MessageParts(m)
        \* Python's range(remaining_start, len) is 0-based
        R[i \in RemainingStart(m)..Len(message_parts)] ==
            IF i = RemainingStart(m) THEN <<>>
            ELSE R[i-1] \o (IF message_parts[i] = <<>> THEN Str(":")
                            ELSE message_parts[i])
    IN  IF RemainingStart(m) > Len(message_parts) THEN <<>>
        ELSE R[Len(message_parts)]
ErrorLevel(m) == MessageParts(m)[3]

CodeStart(h) == IF h THEN Str("<pre>") ELSE Str(Backtick)
\* line 88 assigns "codeeng", so codeend keeps its value of line 85
CodeEnd(h) == Str(Backtick)

\* a variant that never suppresses
process_message_nosuppress(m, suppress, h) ==
    IF Len(MessageParts(m)) < 3 THEN m
    ELSE Join(fn_to_model_dir(MessageParts(m)[1]), Str("/"))
             \o <<" ", "(">> \o LineNum(m) \o <<")", ":", " ">>
             \o CodeStart(h) \o LStrip(RemainingMessage(m)) \o CodeEnd(h)

process_message(m, suppress, h) ==
    IF Len(MessageParts(m)) < 3 THEN m
    ELSE IF suppress /\ RemoveSpaces(ErrorLevel(m)) = Str("warning") THEN None
    ELSE Join(fn_to_model_dir(MessageParts(m)[1]), Str("/"))
             \o <<" ", "(">> \o LineNum(m) \o <<")", ":", " ">>
             \o CodeStart(h) \o LStrip(RemainingMessage(m)) \o CodeEnd(h)

\* lines 110-121: the lines of a Build-Failure Result
BuildFailureLines(md, testdir, message) ==
    IF InList(message, BUILD_ERRORS) THEN <<>>
    ELSE IF md = "markdown"
    THEN << <<"* ", ":no_entry:", " **">> \o testdir \o Str("**: ") \o message >>
    ELSE << Str("<details>"),
            <<"  <summary>", ":no_entry:", " ">> \o testdir \o Str("</summary>"),
            Str("  ") \o message,
            Str("</details>") >>

\* lines 135-144: the lines of a failing test's messages
RECURSIVE MessageLines(_, _)
MessageLines(md, messages) ==
    IF Len(messages) = 0 THEN <<>>
    ELSE LET m == process_message(Head(messages), TRUE, md = "html")
             line == IF m = None THEN <<>>
                     ELSE IF md = "markdown"
                     THEN << Str("       * ") \o m >>
                     ELSE << Str("   <li>") \o m \o Str("</li>") >>
         IN  line \o MessageLines(md, Tail(messages))

\* lines 126-156: the lines of one test
TestLines(md, testname, test) ==
    IF test.status # "pass"
    THEN (IF md = "markdown"
          THEN << <<"  * ", ":no_entry:", " **">> \o testname \o Str("**:") >>
          ELSE << Str("<details>"),
                  <<"  <summary>", ":no_entry:", " ">> \o testname \o Str("</summary>"),
                  Str("  <ul>") >>)
         \o MessageLines(md, test.messages)
         \o (IF md = "html" THEN << Str("  </ul>"), Str("</details>") >> ELSE <<>>)
    ELSE IF md = "markdown"
    THEN << <<"  * ", ":white_check_mark:", " **">> \o testname \o Str("**") >>
    ELSE << Str("<details>"),
            <<"  <summary>", ":white_check_mark:", " ">> \o testname \o Str("</summary>"),
            Str("  Tests Passed."),
            Str("</details>") >>

\* lines 123-156: test_out and any_failed after the loop over a file's tests
RECURSIVE TestOut(_, _)
TestOut(md, tests) ==
    IF Len(tests) = 0 THEN <<>>
    ELSE TestLines(md, Head(tests).key, Head(tests).value)
            \o TestOut(md, Tail(tests))
AnyFailed(tests) == \E i \in 1..Len(tests) : tests[i].value.status # "pass"

\* a variant whose HTML summary of a file always shows the pass glyph
SuiteLines_htmlpass(md, testdir, tests) ==
    LET test_out == TestOut(md, tests)
        simg == IF AnyFailed(tests) /\ md = "markdown" THEN Str(":no_entry:")
                ELSE Str(":white_check_mark:")
    IN  IF Len(test_out) = 0 THEN <<>>
        ELSE (IF md = "markdown"
              THEN << Str("* ") \o simg \o Str(" **") \o testdir \o Str("**") >>
              ELSE << Str("<details>"),
                      Str("  <summary>") \o simg \o Str(" ") \o testdir
                          \o Str("</summary>") >>)
             \o test_out
             \o (IF md = "html" THEN << Str("</details>") >> ELSE <<>>)

\* lines 157-173: the block of a Test Suite Result
SuiteLines(md, testdir, tests) ==
    LET test_out == TestOut(md, tests)
        simg == IF AnyFailed(tests) THEN Str(":no_entry:")
                ELSE Str(":white_check_mark:")
    IN  IF Len(test_out) = 0 THEN <<>>
        ELSE (IF md = "markdown"
              THEN << Str("* ") \o simg \o Str(" **") \o testdir \o Str("**") >>
              ELSE << Str("<details>"),
                      Str("  <summary>") \o simg \o Str(" ") \o testdir
                          \o Str("</summary>") >>)
             \o test_out
             \o (IF md = "html" THEN << Str("</details>") >> ELSE <<>>)

\* a variant that prints the ignorable build message as well
FileLines_printall(md, fn, result) ==
    LET testdir == Join(fn_to_model_dir(fn), Str("/"))
    IN  IF "status" \in DOMAIN result
        THEN IF md = "markdown"
             THEN << <<"* ", ":no_entry:", " **">> \o testdir \o Str("**: ")
                        \o result.message >>
             ELSE << Str("<details>"),
                     <<"  <summary>", ":no_entry:", " ">> \o testdir \o Str("</summary>"),
                     Str("  ") \o result.message,
                     Str("</details>") >>
        ELSE SuiteLines(md, testdir, result.tests)

\* lines 109-173: what one iteration of the loop over files appends to output
FileLines(md, fn, result) ==
    LET testdir == Join(fn_to_model_dir(fn), Str("/"))
    IN  IF "status" \in DOMAIN result
        THEN BuildFailureLines(md, testdir, result.message)
        ELSE SuiteLines(md, testdir, result.tests)

\* a variant that counts a failure only when the file printed something
FileFailed_printed(md, fn, result) ==
    /\ FileLines(md, fn, result) # <<>>
    /\ \/ "status" \in DOMAIN result
       \/ AnyFailed(result.tests)

\* lines 120 and 159-161: whether the iteration sets overall_failed
FileFailed(md, fn, result) ==
    IF "status" \in DOMAIN result THEN TRUE
    ELSE Len(TestOut(md, result.tests)) # 0 /\ AnyFailed(result.tests)

\* lines 105-176: output and overall_failed after the loop over all files
RECURSIVE Rendered(_, _)
Rendered(md, files) ==
    IF Len(files) = 0 THEN <<>>
    ELSE FileLines(md, Head(files).key, Head(files).value)
            \o Rendered(md, Tail(files))
OverallFailed(md, files) ==
    \E i \in 1..Len(files) : FileFailed(md, files[i].key, files[i].value)

(***************************************************************************)
(* Inputs                                                                  *)
(***************************************************************************)

\* longest file path, in segments
MaxSegs == 4

Segments == { Str("models"), Str("yang"), Str("a"), Str("file.yang") }

\* the file paths of 1..MaxSegs segments
Paths == { Join(segs, Str("/")) : segs \in SeqsUpTo(Segments, MaxSegs) \ {<<>>} }

\* "models/yang/a/b/file.yang" and two paths without a Model Path
MsgPaths ==
    { <<"models", "/", "yang", "/", "a", "/", "b", "/", "file.yang">>,
      <<"yang", "/", "models", "/", "a", "/", "file.yang">>,
      <<"a", "/", "file.yang">> }
\* "12", "12(sub)", pyang's "12 (at g.yang:5)"
MsgLineNums ==
    { <<"12">>,
      <<"12", "(", "sub", ")">>,
      <<"12", " ", "(", "at", " ", "g.yang", ":", "5", ")">> }
MsgLevels == { <<"error">>, <<" ", "error">>, <<"warning">>, <<" ", "warning">> }
\* "bad pattern", " bad pattern", "bad: pattern", "bad::pattern"
MsgTexts ==
    { <<"bad", " ", "pattern">>,
      <<" ", "bad", " ", "pattern">>,
      <<"bad", ":", " ", "pattern">>,
      <<"bad", ":", ":", "pattern">> }
StructuredMessages ==
    { Join(<<p, l, e, t>>, Str(":")) :
        p \in MsgPaths, l \in MsgLineNums, e \in MsgLevels, t \in MsgTexts }
\* fewer than three fields
UnstructuredMessages == { <<"internal", " ", "error">>, <<"file.yang", ":", "oops">> }
Messages == StructuredMessages \cup UnstructuredMessages

\* "models/yang/a/b/file.yang:12:error:bad pattern"
ExampleMessage ==
    <<"models", "/", "yang", "/", "a", "/", "b", "/", "file.yang", ":",
      "12", ":", "error", ":", "bad", " ", "pattern">>
\* "models/yang/a/b/file.yang:12(sub):error:bad pattern"
ExampleSubpathMessage ==
    <<"models", "/", "yang", "/", "a", "/", "b", "/", "file.yang", ":",
      "12", "(", "sub", ")", ":", "error", ":", "bad", " ", "pattern">>

\* most files in a lint result document
MaxFiles == 2

\* "models/yang/a", "release/models/yang/a" (the same Model Path), "doc"
FileNames ==
    { <<"models", "/", "yang", "/", "a">>,
      <<"release", "/", "models", "/", "yang", "/", "a">>,
      <<"doc">> }

\* "models/yang/a/b/file.yang:14: warning: unused import"
WarningMessage ==
    <<"models", "/", "yang", "/", "a", "/", "b", "/", "file.yang", ":", "14",
      ":", " ", "warning", ":", " ", "unused", " ", "import">>
\* "internal error"
UnstructuredMessage == <<"internal", " ", "error">>

BuildFailures ==
    { [status |-> "fail", message |-> m] :
        m \in { NoValidBuildFile,
                <<"a", " ">> \o NoValidBuildFile,
                <<"syntax", " ", "error">> } }
Pass == [status |-> "pass", messages |-> <<>>]
\* a failing test all of whose messages are warnings
FailWarnings == [status |-> "fail", messages |-> <<WarningMessage>>]
FailMixed ==
    [status |-> "fail",
     messages |-> <<ExampleMessage, WarningMessage, UnstructuredMessage,
                    ExampleSubpathMessage>>]
Test(name, outcome) == [key |-> Str(name), value |-> outcome]

\* the ordered mappings (in iteration order) of at most n distinct keys
Mappings(keys, values, n) ==
    { m \in SeqsUpTo([key : keys, value : values], n) :
        Distinct([i \in 1..Len(m) |-> m[i].key]) }

\* suites of no, one and two tests, failing tests before and after passing
TestSuites ==
    { [tests |-> t] : t \in
        { <<>>,
          <<Test("pyang", Pass)>>,
          <<Test("pyang", FailWarnings)>>,
          <<Test("pyang", FailMixed)>>,
          <<Test("pyang", Pass), Test("oc-lint", Pass)>>,
          <<Test("pyang", Pass), Test("oc-lint", FailMixed)>>,
          <<Test("oc-lint", FailMixed), Test("pyang", Pass)>>,
          <<Test("pyang", FailWarnings), Test("oc-lint", Pass)>>,
          <<Test("oc-lint", FailWarnings), Test("pyang", FailMixed)>> } }
FileResults == BuildFailures \cup TestSuites

\* a document with a results collection, and one without
LintDocuments ==
    { [tests |-> f] : f \in Mappings(FileNames, FileResults, MaxFiles) }
        \cup { [error |-> Str("linter crashed")] }

(***************************************************************************)
(* Calls of the two pure functions                                         *)
(***************************************************************************)

DirIdle == dir_fn = <<>> /\ dir_ret = None /\ dir_pc = "idle"
MsgIdle ==
    /\ msg = <<>> /\ suppress_warnings = TRUE /\ html = FALSE
    /\ msg_ret = None /\ msg_pc = "idle"
LintIdle ==
    /\ lint_json = <<>> /\ mode = "html" /\ file_idx = 0 /\ output = <<>>
    /\ overall_failed = FALSE /\ fh = None /\ lint_exit = -1 /\ lint_pc = "idle"
BuildIdle ==
    /\ yaml_spec = <<>> /\ spec_idx = 0 /\ stdout = <<>>
    /\ build_exit = -1 /\ build_pc = "idle"

DirInit ==
    /\ dir_fn \in Paths /\ dir_ret = None /\ dir_pc = "call"
    /\ MsgIdle /\ LintIdle /\ BuildIdle

Call_fn_to_model_dir ==
    /\ dir_pc = "call"
    /\ dir_ret' = fn_to_model_dir(dir_fn)
    /\ dir_pc' = "return"
    /\ UNCHANGED <<dir_fn, msg_vars, lint_vars, build_vars>>

DirNext == Call_fn_to_model_dir
SpecDir == DirInit /\ [][DirNext]_vars

MsgInit ==
    /\ msg \in Messages /\ suppress_warnings \in BOOLEAN /\ html \in BOOLEAN
    /\ msg_ret = None /\ msg_pc = "call"
    /\ DirIdle /\ LintIdle /\ BuildIdle

Call_process_message ==
    /\ msg_pc = "call"
    /\ msg_ret' = process_message(msg, suppress_warnings, html)
    /\ msg_pc' = "return"
    /\ UNCHANGED <<msg, suppress_warnings, html, dir_vars, lint_vars, build_vars>>

MsgNext == Call_process_message
SpecMsg == MsgInit /\ [][MsgNext]_vars

(***************************************************************************)
(* Properties of fn_to_model_dir and process_message                       *)
(***************************************************************************)

IsPrefix(p, s) == Len(p) <= Len(s) /\ SubSeq(s, 1, Len(p)) = p
Last(s) == s[Len(s)]
Min(S) == CHOOSE x \in S : \A y \in S : x <= y

\* the positions j of a "yang" segment that comes after a "models" segment
YangAfterModels(parts) ==
    { j \in 1..Len(parts) :
        /\ parts[j] = Str("yang")
        /\ \E i \in 1..(j-1) : parts[i] = Str("models") }

\* C10: fn_to_model_dir returns only segments that follow "models" then
\* "yang", and returns nothing when the two do not appear in that order.
C10_OnlyAfterModelsThenYang ==
    dir_pc = "return" =>
        LET parts == Split(dir_fn, "/")
            at == YangAfterModels(parts)
        IN  /\ at = {} => dir_ret = <<>>
            /\ at # {} =>
                 \A k \in 1..Len(dir_ret) :
                    \E i \in (Min(at)+1)..Len(parts) : parts[i] = dir_ret[k]

\* the segments of a path after the first position by which both "models"
\* and "yang" have been seen, those two literals left out
SegmentsAfterAnchors(path) ==
    LET parts == Split(path, "/")
        both == { k \in 1..Len(parts) :
                    /\ \E i \in 1..k : parts[i] = Str("models")
                    /\ \E i \in 1..k : parts[i] = Str("yang") }
    IN  IF both = {} THEN <<>>
        ELSE SelectSeq(SubSeq(parts, Min(both) + 1, Len(parts)),
                       LAMBDA p : p \notin {Str("models"), Str("yang")})

\* the directory of a path: the path without its last segment
DirName(path) ==
    LET parts == Split(path, "/")
    IN  Join(SubSeq(parts, 1, Len(parts) - 1), Str("/"))

Field(m, i) == Split(m, ":")[i]
IsStructured(m) == Len(Split(m, ":")) >= 3
\* <filepath>:<linenum>:<level>:<text>, no subpath
IsPlain(m) == Len(Split(m, ":")) >= 4 /\ ~Contains(Field(m, 2), "(")
\* <filepath>:<linenum>(<subpath>):<level>:<text>, the subpath without ":"
IsSubpathed(m) ==
    /\ Len(Split(m, ":")) >= 4
    /\ Contains(Field(m, 2), "(")
    /\ Last(Field(m, 2)) = ")"
IsWarning(m) == IsStructured(m) /\ RemoveSpaces(Field(m, 3)) = Str("warning")
OpenQuote(h) == IF h THEN Str("<pre>") ELSE Str(Backtick)
CloseQuote(h) == IF h THEN Str("</pre>") ELSE Str(Backtick)
Located(path, linenum) ==
    Join(path, Str("/")) \o <<" ", "(">> \o linenum \o <<")", ":", " ">>

\* C5 as stated: a message without subpath whose level is not warning renders
\* "<directory of the file below models/yang> (<linenum>): " and the quoted
\* text; the example renders as "a/b (12): " and the quoted "bad pattern".
C5_RendersModelDirectory ==
    (msg_pc = "return" /\ IsPlain(msg) /\ ~IsWarning(msg)) =>
        /\ IsPrefix(Located(SegmentsAfterAnchors(DirName(Field(msg, 1))),
                            Field(msg, 2)) \o OpenQuote(html), msg_ret)
        /\ msg = ExampleMessage =>
             IsPrefix(<<"a", "/", "b", " ", "(", "12", ")", ":", " ">>
                        \o OpenQuote(html) \o <<"bad", " ", "pattern">>, msg_ret)

\* C5 amended: the model path shown is every segment of the file path after
\* "models" and "yang", the file name included; the rendering starts with
\* "<model path> (<linenum>): ", the opening quote of the mode and the text,
\* and in Markdown mode the example renders exactly as
\* "a/b/file.yang (12): " and "bad pattern" between two backticks.
C5_RendersModelPathWithFileName ==
    (msg_pc = "return" /\ IsPlain(msg) /\ ~IsWarning(msg)) =>
        LET start == Located(SegmentsAfterAnchors(Field(msg, 1)), Field(msg, 2))
                        \o OpenQuote(html)
            fields == Split(msg, ":")
        IN  /\ IsPrefix(start, msg_ret)
            /\ Len(fields) = 4 => IsPrefix(start \o LStrip(fields[4]), msg_ret)
            /\ (Len(fields) = 4 /\ ~html) =>
                 msg_ret = start \o LStrip(fields[4]) \o Str(Backtick)
            /\ (msg = ExampleMessage /\ ~html) =>
                 msg_ret = <<"a", "/", "b", "/", "file.yang", " ", "(", "12",
                             ")", ":", " ", Backtick, "bad", " ", "pattern",
                             Backtick>>

C5_Witness ==
    /\ msg_pc = "return" /\ msg = ExampleMessage /\ ~html
    /\ msg_ret # None /\ msg_ret # msg

\* the message with the "(<subpath>)" suffix of its line-number field removed
WithoutSubpath(m) ==
    LET fields == Split(m, ":")
    IN  Join([fields EXCEPT ![2] = Split(fields[2], "(")[1]], Str(":"))

\* C6: a message with a parenthesized subpath on its line number renders as
\* the same message without the subpath: line number before "(" only, and the
\* text of the message.
C6_SubpathRendersAsWithout ==
    (msg_pc = "return" /\ IsSubpathed(msg)) =>
        /\ msg_ret = process_message(WithoutSubpath(msg), suppress_warnings, html)
        /\ (msg = ExampleSubpathMessage /\ ~html) =>
             /\ IsPrefix(Located(SegmentsAfterAnchors(Field(msg, 1)), Str("12")),
                         msg_ret)
             /\ \E i \in 1..Len(msg_ret) :
                    SubSeq(msg_ret, i, i + 2) = <<"bad", " ", "pattern">>

\* C7: the text of a rendered structured message stands between a matching
\* pair of delimiters: two backticks in Markdown mode, <pre> and </pre> in
\* HTML mode, where no backtick appears.
C7_MatchingQuotes ==
    (msg_pc = "return" /\ IsStructured(msg) /\ msg_ret # None) =>
        /\ Contains(msg_ret, OpenQuote(html)[1])
        /\ Last(msg_ret) = CloseQuote(html)[1]
        /\ html => ~Contains(msg_ret, Backtick)

(***************************************************************************)
(* A run of lint_to_md.py                                                  *)
(***************************************************************************)

LintInit ==
    /\ lint_json \in LintDocuments
    /\ mode \in {"markdown", "html"}
    /\ file_idx = 0 /\ output = <<>> /\ overall_failed = FALSE
    /\ fh = None /\ lint_exit = -1 /\ lint_pc = "start"
    /\ DirIdle /\ MsgIdle /\ BuildIdle

\* lines 97-106, a document with "tests"
LoadDocument ==
    /\ lint_pc = "start"
    /\ "tests" \in DOMAIN lint_json
    /\ output' = <<>>
    /\ overall_failed' = FALSE
    /\ file_idx' = 0
    /\ lint_pc' = "loop"
    /\ UNCHANGED <<lint_json, mode, fh, lint_exit, dir_vars, msg_vars, build_vars>>

\* lines 101-103, a document without "tests"
InvalidDocument ==
    /\ lint_pc = "start"
    /\ "tests" \notin DOMAIN lint_json
    /\ lint_exit' = 1
    /\ lint_pc' = "exit"
    /\ UNCHANGED <<lint_json, mode, file_idx, output, overall_failed, fh,
                   dir_vars, msg_vars, build_vars>>

\* lines 107-173, one iteration
ProcessFile ==
    /\ lint_pc = "loop"
    /\ file_idx < Len(lint_json.tests)
    /\ LET fn == lint_json.tests[file_idx + 1].key
           result == lint_json.tests[file_idx + 1].value
       IN  /\ output' = output \o FileLines(mode, fn, result)
           /\ overall_failed' = (overall_failed \/ FileFailed(mode, fn, result))
    /\ file_idx' = file_idx + 1
    /\ UNCHANGED <<lint_json, mode, fh, lint_exit, lint_pc,
                   dir_vars, msg_vars, build_vars>>

\* lines 175-176 and 198-199
PrintOutput ==
    /\ lint_pc = "loop"
    /\ file_idx = Len(lint_json.tests)
    /\ fh' = Join(output, Str("\n")) \o Str("\n")
    /\ lint_exit' = (IF overall_failed THEN 1 ELSE 0)
    /\ lint_pc' = "exit"
    /\ UNCHANGED <<lint_json, mode, file_idx, output, overall_failed,
                   dir_vars, msg_vars, build_vars>>

LintNext == LoadDocument \/ InvalidDocument \/ ProcessFile \/ PrintOutput
SpecLint == LintInit /\ [][LintNext]_vars

(***************************************************************************)
(* Properties of a run of lint_to_md.py                                    *)
(***************************************************************************)

Files == lint_json.tests
Finished == lint_pc = "exit" /\ "tests" \in DOMAIN lint_json
IsBuildFailure(result) == "status" \in DOMAIN result
ModelPath(fn) == Join(SegmentsAfterAnchors(fn), Str("/"))
OtherMode(md) == IF md = "markdown" THEN "html" ELSE "markdown"

\* the lines of block stand in out one after the other
Occurs(block, out) ==
    \E s \in 0..(Len(out) - Len(block)) :
        \A k \in 1..Len(block) : out[s + k] = block[k]

\* some file is a Build-Failure Result or some test did not pass
DocumentFails ==
    \E i \in 1..Len(Files) :
        \/ IsBuildFailure(Files[i].value)
        \/ /\ ~IsBuildFailure(Files[i].value)
           /\ \E j \in 1..Len(Files[i].value.tests) :
                 Files[i].value.tests[j].value.status # "pass"

\* C1: in both modes the overall failure (and the exit status) is set exactly
\* when some file is a Build-Failure Result or some test of some file did not
\* pass, whatever lines were suppressed.
C1_FailureIffAnyFailed ==
    Finished =>
        /\ overall_failed <=> DocumentFails
        /\ lint_exit = (IF DocumentFails THEN 1 ELSE 0)

\* a failing run that printed nothing
C1_Witness ==
    /\ Finished /\ Len(Files) > 0 /\ output = <<>> /\ overall_failed
    /\ lint_exit = 1

\* the line (Markdown) or block (HTML) of a build failure
BuildFailureBlock(md, fn, message) ==
    IF md = "markdown"
    THEN << <<"* ", ":no_entry:", " **">> \o ModelPath(fn) \o Str("**: ")
                \o message >>
    ELSE << Str("<details>"),
            <<"  <summary>", ":no_entry:", " ">> \o ModelPath(fn)
                \o Str("</summary>"),
            Str("  ") \o message,
            Str("</details>") >>

\* "did not have a valid build file"
IgnorableMessage ==
    <<"did", " ", "not", " ", "have", " ", "a", " ", "valid", " ", "build",
      " ", "file">>
\* the line of a build failure's block that carries its message
MessageLineOf(md, block) == IF md = "markdown" THEN block[1] ELSE block[3]

\* C2 as stated: every Build-Failure Result has its failure line or block in
\* the output, the ignorable message included.
C2_EveryBuildFailurePrinted ==
    Finished =>
        \A i \in 1..Len(Files) :
            IsBuildFailure(Files[i].value) =>
                Occurs(BuildFailureBlock(mode, Files[i].key,
                                         Files[i].value.message), output)

\* C2 amended: a Build-Failure Result has its failure line or block in the
\* output unless its message is exactly "did not have a valid build file";
\* for that message nothing is printed, and the file still counts as failed.
C2_PrintedUnlessIgnorable ==
    Finished =>
        \A i \in 1..Len(Files) :
            IsBuildFailure(Files[i].value) =>
                LET block == BuildFailureBlock(mode, Files[i].key,
                                               Files[i].value.message)
                IN  /\ overall_failed
                    /\ Files[i].value.message # IgnorableMessage
                          => Occurs(block, output)
                    /\ Files[i].value.message = IgnorableMessage
                          => ~Occurs(<<MessageLineOf(mode, block)>>, output)

C2_Witness ==
    /\ Finished
    /\ \E i, j \in 1..Len(Files) :
          /\ IsBuildFailure(Files[i].value)
          /\ IsBuildFailure(Files[j].value)
          /\ Files[i].value.message = IgnorableMessage
          /\ Files[j].value.message # IgnorableMessage
    /\ output # <<>>

\* the messages of a test whose level is not warning
NotWarnings(messages) == SelectSeq(messages, LAMBDA m : ~IsWarning(m))

\* the block of a failing test: its header, then one line per message in
\* shown, then (HTML) the end of the list
FailingTestBlock(md, testname, shown) ==
    IF md = "markdown"
    THEN << <<"  * ", ":no_entry:", " **">> \o testname \o Str("**:") >>
            \o [k \in 1..Len(shown) |->
                    Str("       * ") \o process_message(shown[k], FALSE, FALSE)]
    ELSE << Str("<details>"),
            <<"  <summary>", ":no_entry:", " ">> \o testname \o Str("</summary>"),
            Str("  <ul>") >>
            \o [k \in 1..Len(shown) |->
                    Str("   <li>") \o process_message(shown[k], FALSE, TRUE)
                        \o Str("</li>")]
            \o << Str("  </ul>") >>

IsMessageLine(line) == Len(line) > 0 /\ line[1] \in {"       * ", "   <li>"}

\* block stands in out and no message line follows it
OccursClosed(block, out) ==
    \E s \in 0..(Len(out) - Len(block)) :
        /\ \A k \in 1..Len(block) : out[s + k] = block[k]
        /\ s + Len(block) < Len(out) => ~IsMessageLine(out[s + Len(block) + 1])

\* C8: process_message drops a warning-level message by default and renders
\* it with suppression disabled; in the report of process_output the lines
\* beneath a failing test are exactly its messages whose level is not
\* warning, in order.
C8_WarningsSuppressed ==
    Finished =>
        \A i \in 1..Len(Files) :
            ~IsBuildFailure(Files[i].value) =>
                \A j \in 1..Len(Files[i].value.tests) :
                    LET t == Files[i].value.tests[j]
                    IN  t.value.status # "pass" =>
                          /\ OccursClosed(
                                FailingTestBlock(mode, t.key,
                                                 NotWarnings(t.value.messages)),
                                output)
                          /\ \A k \in 1..Len(t.value.messages) :
                                LET m == t.value.messages[k]
                                IN  IsWarning(m) =>
                                      /\ process_message(m, TRUE, mode = "html") = None
                                      /\ process_message(m, FALSE, mode = "html") # None

\* a finished report of a failing test with warning and other messages
C8_Witness ==
    /\ Finished
    /\ \E i \in 1..Len(Files) :
          /\ ~IsBuildFailure(Files[i].value)
          /\ \E j \in 1..Len(Files[i].value.tests) :
                LET t == Files[i].value.tests[j].value
                IN  /\ t.status # "pass"
                    /\ \E k \in 1..Len(t.messages) : IsWarning(t.messages[k])
                    /\ \E k \in 1..Len(t.messages) : ~IsWarning(t.messages[k])
    /\ \E n \in 1..Len(output) : IsMessageLine(output[n])

(***************************************************************************)
(* Reading a report back: the files and tests with their glyphs            *)
(***************************************************************************)

Glyphs == {":no_entry:", ":white_check_mark:"}

\* Markdown: a file line starts "* ", a test line "  * "; the name stands
\* between " **" and the next "**", "**:" or "**: "
MdName(line) ==
    LET ends == { k \in 4..Len(line) : line[k] \in {"**", "**:", "**: "} }
    IN  SubSeq(line, 4, Min(ends) - 1)
MdIsFile(line) == Len(line) >= 4 /\ line[1] = "* " /\ line[2] \in Glyphs
MdIsTest(line) == Len(line) >= 4 /\ line[1] = "  * " /\ line[2] \in Glyphs

\* HTML: the depth of line n is the number of <details> open at it; a summary
\* at depth 1 is a file's, at depth 2 a test's
HtmlDepth(out, n) ==
    Cardinality({ k \in 1..n : out[k] = Str("<details>") })
        - Cardinality({ k \in 1..n : out[k] = Str("</details>") })
HtmlIsSummary(line) ==
    Len(line) >= 4 /\ line[1] = "  <summary>" /\ line[2] \in Glyphs
        /\ Last(line) = "</summary>"
HtmlName(line) == SubSeq(line, 4, Len(line) - 1)

IsFileLine(md, out, n) ==
    IF md = "markdown" THEN MdIsFile(out[n])
    ELSE HtmlIsSummary(out[n]) /\ HtmlDepth(out, n) = 1
IsTestLine(md, out, n) ==
    IF md = "markdown" THEN MdIsTest(out[n])
    ELSE HtmlIsSummary(out[n]) /\ HtmlDepth(out, n) = 2
NameOf(md, line) == IF md = "markdown" THEN MdName(line) ELSE HtmlName(line)
Max(S) == CHOOSE x \in S : \A y \in S : x >= y

\* the files <<Model Path, glyph>> of a report
ReportedFiles(md, out) ==
    { <<NameOf(md, out[n]), out[n][2]>> :
        n \in { k \in 1..Len(out) : IsFileLine(md, out, k) } }
\* the tests <<Model Path of the file, test name, glyph>> of a report
ReportedTests(md, out) ==
    { <<NameOf(md, out[Max({ f \in 1..n : IsFileLine(md, out, f) })]),
        NameOf(md, out[n]), out[n][2]>> :
        n \in { k \in 1..Len(out) : IsTestLine(md, out, k) } }

\* C9: the report of the run and the report of the other mode for the same
\* document name the same files and the same tests per file with the same
\* glyphs, and the overall failure is the same.
C9_ModesEquivalent ==
    Finished =>
        LET other == Rendered(OtherMode(mode), Files)
        IN  /\ ReportedFiles(mode, output) = ReportedFiles(OtherMode(mode), other)
            /\ ReportedTests(mode, output) = ReportedTests(OtherMode(mode), other)
            /\ overall_failed = OverallFailed(OtherMode(mode), Files)

\* a finished report with a passing and a failing file, and tests of both kinds
C9_Witness ==
    /\ Finished
    /\ \E a, b \in ReportedFiles(mode, output) :
          a[2] = ":no_entry:" /\ b[2] = ":white_check_mark:"
    /\ \E a, b \in ReportedTests(mode, output) :
          a[3] = ":no_entry:" /\ b[3] = ":white_check_mark:"
    /\ mode = "html"

(***************************************************************************)
(* find_buildfiles.py                                                      *)
(***************************************************************************)

\* most build entries in a specification document
MaxEntries == 3

\* an option is <<>> (the key is absent) or <<v>> (the key has value v)
RunCiOptions == { <<>>, <<TRUE>>, <<FALSE>> }
NameOptions == { <<>>, <<Str("openconfig-a")>> }
\* no build key, an empty list, "b.yang" before "a.yang"
BuildOptions == { <<>>, << <<>> >>, << <<Str("b.yang"), Str("a.yang")>> >> }

\* the mapping record of a build entry: only the keys it has
Entry(r, n, b) ==
    [k \in ((IF r = <<>> THEN {} ELSE {"run-ci"})
                \cup (IF n = <<>> THEN {} ELSE {"name"})
                \cup (IF b = <<>> THEN {} ELSE {"build"})) |->
        CASE k = "run-ci" -> r[1]
          [] k = "name" -> n[1]
          [] k = "build" -> b[1]]
BuildEntries ==
    { Entry(r, n, b) : r \in RunCiOptions, n \in NameOptions, b \in BuildOptions }
SpecDocuments == SeqsUpTo(BuildEntries, MaxEntries)

\* a variant in which a missing run-ci means false
RunCi_defaultfalse(buildspec) ==
    IF "run-ci" \in DOMAIN buildspec THEN buildspec["run-ci"] ELSE FALSE

\* lines 49-51
RunCi(buildspec) ==
    IF "run-ci" \in DOMAIN buildspec THEN buildspec["run-ci"] ELSE TRUE

\* lines 53-55
NameOfEntry(buildspec) ==
    IF "name" \in DOMAIN buildspec THEN buildspec["name"] ELSE Str("undefined")

\* a variant that asks for a build stanza of every entry
MissingBuild_always(buildspec) == "build" \notin DOMAIN buildspec

\* line 62, reached only when run-ci is true
MissingBuild(buildspec) == RunCi(buildspec) /\ "build" \notin DOMAIN buildspec

\* lines 66-70: "1!<files>!<name>"
EntryLine(buildspec) ==
    Str(IF RunCi(buildspec) THEN "1" ELSE "0") \o Str("!")
        \o Join(buildspec["build"], Str(",")) \o Str("!") \o NameOfEntry(buildspec)

BuildInit ==
    /\ yaml_spec \in SpecDocuments
    /\ spec_idx = 0 /\ stdout = <<>> /\ build_exit = -1 /\ build_pc = "loop"
    /\ DirIdle /\ MsgIdle /\ LintIdle

\* lines 58-60: an entry CI does not run for
SkipEntry ==
    /\ build_pc = "loop"
    /\ spec_idx < Len(yaml_spec)
    /\ ~RunCi(yaml_spec[spec_idx + 1])
    /\ stdout' = Append(stdout, <<"0", "!">>)
    /\ spec_idx' = spec_idx + 1
    /\ UNCHANGED <<yaml_spec, build_exit, build_pc, dir_vars, msg_vars, lint_vars>>

\* lines 62-64: no build stanza
MalformedEntry ==
    /\ build_pc = "loop"
    /\ spec_idx < Len(yaml_spec)
    /\ MissingBuild(yaml_spec[spec_idx + 1])
    /\ build_exit' = 1
    /\ build_pc' = "exit"
    /\ UNCHANGED <<yaml_spec, spec_idx, stdout, dir_vars, msg_vars, lint_vars>>

\* lines 66-70
EmitEntry ==
    /\ build_pc = "loop"
    /\ spec_idx < Len(yaml_spec)
    /\ ~MissingBuild(yaml_spec[spec_idx + 1])
    /\ RunCi(yaml_spec[spec_idx + 1])
    /\ stdout' = Append(stdout, EntryLine(yaml_spec[spec_idx + 1]))
    /\ spec_idx' = spec_idx + 1
    /\ UNCHANGED <<yaml_spec, build_exit, build_pc, dir_vars, msg_vars, lint_vars>>

\* the loop of line 48 is over: main returns
EndOfSpec ==
    /\ build_pc = "loop"
    /\ spec_idx = Len(yaml_spec)
    /\ build_exit' = 0
    /\ build_pc' = "exit"
    /\ UNCHANGED <<yaml_spec, spec_idx, stdout, dir_vars, msg_vars, lint_vars>>

BuildNext == SkipEntry \/ MalformedEntry \/ EmitEntry \/ EndOfSpec
SpecBuild == BuildInit /\ [][BuildNext]_vars

(***************************************************************************)
(* Properties of a run of find_buildfiles.py                               *)
(***************************************************************************)

\* run-ci is true or absent
RunsCi(e) == "run-ci" \notin DOMAIN e \/ e["run-ci"] = TRUE
\* CI runs for the entry and it has no build key
IsMalformed(e) == RunsCi(e) /\ "build" \notin DOMAIN e
Malformed(doc) == { i \in 1..Len(doc) : IsMalformed(doc[i]) }

\* "0!" or "1!<f1,...,fn>!<name>"
ExpectedLine(e) ==
    IF ~RunsCi(e) THEN <<"0", "!">>
    ELSE <<"1", "!">> \o Join(e["build"], Str(",")) \o Str("!")
            \o (IF "name" \in DOMAIN e THEN e["name"] ELSE Str("undefined"))
ExpectedLines(doc, n) == [i \in 1..n |-> ExpectedLine(doc[i])]

C4_StopsAtMalformed ==
    LET bad == Malformed(yaml_spec)
    IN  /\ build_pc = "loop" =>
             /\ bad # {} => spec_idx < Min(bad)
             /\ stdout = ExpectedLines(yaml_spec, spec_idx)
        /\ (build_pc = "exit" /\ bad # {}) =>
             /\ build_exit = 1
             /\ spec_idx = Min(bad) - 1
             /\ stdout = ExpectedLines(yaml_spec, Min(bad) - 1)
        /\ (build_pc = "exit" /\ bad = {}) =>
             /\ build_exit = 0
             /\ Len(stdout) = Len(yaml_spec)

\* a run stopped at a malformed entry between a printed disabled entry
\* without build key and an entry never reached
C4_Witness ==
    /\ build_pc = "exit" /\ build_exit = 1
    /\ Len(stdout) >= 1
    /\ Len(stdout) + 1 < Len(yaml_spec)
    /\ \E i \in 1..Len(stdout) :
          ~RunsCi(yaml_spec[i]) /\ "build" \notin DOMAIN yaml_spec[i]

====
